---- MODULE Spec2Model ----
(***************************************************************************)
(* unreal-mcp: an MCP server that proxies tool calls to Unreal Engine's    *)
(* Web Remote Control HTTP API (v0.2.0, with SSH read-back of the output   *)
(* of executed Python).                                                    *)
(*                                                                         *)
(* Text (JS strings, HTTP bodies, file contents) is a sequence of tokens;  *)
(* a token is a TLA+ string standing for one or more characters.  JSON     *)
(* whitespace is not modelled.  A JSON string literal is the token Q, its  *)
(* content tokens, and Q again (escape sequences are not modelled, so the  *)
(* content of a string never holds Q).                                     *)
(***************************************************************************)
EXTENDS Integers, Sequences, FiniteSets, TLC

\* ------------------------------------------------------------- JS values

Q == "\""

Undef == [t |-> "undefined"]
Null == [t |-> "null"]
Bool(b) == [t |-> "bool", b |-> b]
Num(n) == [t |-> "num", n |-> n]
Str(s) == [t |-> "str", s |-> s]
\* an object is the sequence of its [k, v] members in insertion order
Obj(m) == [t |-> "obj", o |-> m]
Arr(a) == [t |-> "arr", a |-> a]

\* the number literals the model's texts use
NumLex == ("0" :> 0) @@ ("5" :> 5) @@ ("42" :> 42)

Min(a, b) == IF a <= b THEN a ELSE b

\* String.prototype.slice(0, n)
Slice(s, n) == SubSeq(s, 1, Min(n, Len(s)))

\* index of member k in the member list m, 0 when absent
RECURSIVE MemberIndex(_, _, _)
MemberIndex(m, k, i) ==
  IF i > Len(m) THEN 0
  ELSE IF m[i].k = k THEN i
  ELSE MemberIndex(m, k, i + 1)

\* obj[k] = v: a repeated key keeps its place and takes the new value
SetMember(m, k, v) ==
  LET i == MemberIndex(m, k, 1)
  IN IF i = 0 THEN Append(m, [k |-> k, v |-> v])
     ELSE [m EXCEPT ![i] = [k |-> k, v |-> v]]

\* ------------------------------------------------------------ JSON.parse

ParseFail(i) == [ok |-> FALSE, v |-> Undef, n |-> i]
ParseOk(v, n) == [ok |-> TRUE, v |-> v, n |-> n]

\* index of the first Q at or after i, 0 when there is none
RECURSIVE NextQuote(_, _)
NextQuote(text, i) ==
  IF i > Len(text) THEN 0
  ELSE IF text[i] = Q THEN i
  ELSE NextQuote(text, i + 1)

\* a string literal starting at i (text[i] = Q)
ParseString(text, i) ==
  LET j == NextQuote(text, i + 1)
  IN IF j = 0 THEN ParseFail(Len(text) + 1)
     ELSE ParseOk(Str(SubSeq(text, i + 1, j - 1)), j + 1)

RECURSIVE ParseValue(_, _)
RECURSIVE ParseMembers(_, _, _)
RECURSIVE ParseElements(_, _, _)

\* the members of an object, text[i] being the first token of a member
ParseMembers(text, i, acc) ==
  IF i > Len(text) \/ text[i] # Q THEN ParseFail(i)
  ELSE
    LET key == ParseString(text, i)
    IN IF ~key.ok THEN key
       ELSE IF key.n > Len(text) \/ text[key.n] # ":" THEN ParseFail(key.n)
       ELSE
         LET val == ParseValue(text, key.n + 1)
         IN IF ~val.ok THEN val
            ELSE IF val.n > Len(text) THEN ParseFail(val.n)
            ELSE IF text[val.n] = "}"
              THEN ParseOk(Obj(SetMember(acc, key.v.s, val.v)), val.n + 1)
            ELSE IF text[val.n] = ","
              THEN ParseMembers(text, val.n + 1, SetMember(acc, key.v.s, val.v))
            ELSE ParseFail(val.n)

\* the elements of an array, text[i] being the first token of an element
ParseElements(text, i, acc) ==
  LET val == ParseValue(text, i)
  IN IF ~val.ok THEN val
     ELSE IF val.n > Len(text) THEN ParseFail(val.n)
     ELSE IF text[val.n] = "]" THEN ParseOk(Arr(Append(acc, val.v)), val.n + 1)
     ELSE IF text[val.n] = "," THEN ParseElements(text, val.n + 1, Append(acc, val.v))
     ELSE ParseFail(val.n)

ParseValue(text, i) ==
  IF i > Len(text) THEN ParseFail(i)
  ELSE IF text[i] = "null" THEN ParseOk(Null, i + 1)
  ELSE IF text[i] = "true" THEN ParseOk(Bool(TRUE), i + 1)
  ELSE IF text[i] = "false" THEN ParseOk(Bool(FALSE), i + 1)
  ELSE IF text[i] \in DOMAIN NumLex THEN ParseOk(Num(NumLex[text[i]]), i + 1)
  ELSE IF text[i] = Q THEN ParseString(text, i)
  ELSE IF text[i] = "{" THEN
    IF i + 1 <= Len(text) /\ text[i + 1] = "}" THEN ParseOk(Obj(<<>>), i + 2)
    ELSE ParseMembers(text, i + 1, <<>>)
  ELSE IF text[i] = "[" THEN
    IF i + 1 <= Len(text) /\ text[i + 1] = "]" THEN ParseOk(Arr(<<>>), i + 2)
    ELSE ParseElements(text, i + 1, <<>>)
  ELSE ParseFail(i)

\* JSON.parse(text): the value, or the SyntaxError it throws
JSONParse(text) ==
  LET r == ParseValue(text, 1)
  IN IF r.ok /\ r.n = Len(text) + 1 THEN [ok |-> TRUE, v |-> r.v]
     ELSE
       LET at == r.n
       IN [ok |-> FALSE,
           msg |-> IF at > Len(text)
                     THEN <<"Unexpected end of JSON input">>
                     ELSE <<"Unexpected token ", text[at],
                            " in JSON at position ", ToString(at - 1)>>]

\* -------------------------------------------------------- JSON.stringify

RECURSIVE Stringify(_)
RECURSIVE StringifyMembers(_, _, _)
RECURSIVE StringifyElements(_, _)

\* members from index i on; a member whose value is undefined is left out
StringifyMembers(m, i, first) ==
  IF i > Len(m) THEN <<>>
  ELSE IF m[i].v = Undef THEN StringifyMembers(m, i + 1, first)
  ELSE (IF first THEN <<>> ELSE <<",">>)
         \o <<Q>> \o m[i].k \o <<Q, ":">> \o Stringify(m[i].v)
         \o StringifyMembers(m, i + 1, FALSE)

\* elements from index i on; an undefined element is written null
StringifyElements(a, i) ==
  IF i > Len(a) THEN <<>>
  ELSE (IF i = 1 THEN <<>> ELSE <<",">>)
         \o (IF a[i] = Undef THEN <<"null">> ELSE Stringify(a[i]))
         \o StringifyElements(a, i + 1)

Stringify(v) ==
  CASE v.t = "null" -> <<"null">>
    [] v.t = "bool" -> IF v.b THEN <<"true">> ELSE <<"false">>
    [] v.t = "num" -> <<ToString(v.n)>>
    [] v.t = "str" -> <<Q>> \o v.s \o <<Q>>
    [] v.t = "obj" -> <<"{">> \o StringifyMembers(v.o, 1, TRUE) \o <<"}">>
    [] v.t = "arr" -> <<"[">> \o StringifyElements(v.a, 1) \o <<"]">>

\* ------------------------------------------------------- JS semantics

\* ToBoolean(v)
Truthy(v) ==
  CASE v.t = "undefined" -> FALSE
    [] v.t = "null" -> FALSE
    [] v.t = "bool" -> v.b
    [] v.t = "num" -> v.n # 0
    [] v.t = "str" -> v.s # <<>>
    [] v.t = "obj" -> TRUE
    [] v.t = "arr" -> TRUE

RECURSIVE ToStr(_)
RECURSIVE JoinElements(_, _)

\* Array.prototype.join(","): null and undefined elements give ""
JoinElements(a, i) ==
  IF i > Len(a) THEN <<>>
  ELSE (IF i = 1 THEN <<>> ELSE <<",">>)
         \o (IF a[i].t \in {"null", "undefined"} THEN <<>> ELSE ToStr(a[i]))
         \o JoinElements(a, i + 1)

\* String(v), as a template literal and new Error(v) apply it
ToStr(v) ==
  CASE v.t = "undefined" -> <<"undefined">>
    [] v.t = "null" -> <<"null">>
    [] v.t = "bool" -> IF v.b THEN <<"true">> ELSE <<"false">>
    [] v.t = "num" -> <<ToString(v.n)>>
    [] v.t = "str" -> v.s
    [] v.t = "obj" -> <<"[object Object]">>
    [] v.t = "arr" -> JoinElements(v.a, 1)

\* what a step gives: a value returned, or an Error thrown with a message
Return(v) == [ok |-> TRUE, v |-> v]
Throw(msg) == [ok |-> FALSE, msg |-> msg]

\* v.k for a key k that is no built-in property of v's type
Get(v, k) ==
  IF v.t \in {"null", "undefined"}
    THEN Throw(<<"Cannot read properties of ", v.t, " (reading '">> \o k \o <<"')">>)
  ELSE IF v.t = "obj" /\ MemberIndex(v.o, k, 1) # 0
    THEN Return(v.o[MemberIndex(v.o, k, 1)].v)
  ELSE Return(Undef)

\* ------------------------------------------------------------------ ue()

TruncLen == 500

\* Response.ok
RespOk(status) == status >= 200 /\ status <= 299

NoReply == [kind |-> "none"]
NetworkError == [kind |-> "neterr"]
HttpReply(status, body) == [kind |-> "http", status |-> status, body |-> body]

\* as UeErrorMessage, the body not cut
UeErrorMessageWholeBody(method, path, status, text) ==
  <<"UE ", method, " ", path, " → ", ToString(status), ": ">> \o text

\* the message of the Error ue throws on a non-success status
UeErrorMessage(method, path, status, text) ==
  <<"UE ", method, " ", path, " → ", ToString(status), ": ">> \o Slice(text, TruncLen)

\* as UeResult, the body that is no JSON given up as null
UeResultNoRawText(method, path, reply) ==
  IF reply.kind = "neterr"
    THEN Throw(<<"fetch failed">>) @@ [did |-> <<"fetch", "throw">>]
  ELSE IF ~RespOk(reply.status)
    THEN Throw(UeErrorMessage(method, path, reply.status, reply.body))
           @@ [did |-> <<"fetch", "text", "throw">>]
  ELSE
    LET p == JSONParse(reply.body)
    IN (IF p.ok THEN Return(p.v) ELSE Return(Null))
         @@ [did |-> <<"fetch", "text", "parse", "return">>]

\* ue(method, path, body) from the point where the fetch settles with `reply`;
\* `did` lists the steps it ran
UeResult(method, path, reply) ==
  IF reply.kind = "neterr"
    THEN Throw(<<"fetch failed">>) @@ [did |-> <<"fetch", "throw">>]
  ELSE IF ~RespOk(reply.status)
    THEN Throw(UeErrorMessage(method, path, reply.status, reply.body))
           @@ [did |-> <<"fetch", "text", "throw">>]
  ELSE
    LET p == JSONParse(reply.body)
    IN (IF p.ok THEN Return(p.v)
        ELSE Return(IF reply.body # <<>> THEN Str(reply.body) ELSE Null))
         @@ [did |-> <<"fetch", "text", "parse", "return">>]

\* -------------------------------------------------------------- ok / err

ok(data) ==
  [text |-> IF data.t = "str" THEN data.s ELSE Stringify(data), isError |-> FALSE]

\* `msg` is error.message for an Error and String(error) for a string
err(msg) == [text |-> <<"Error: ">> \o msg, isError |-> TRUE]

\* --------------------------------------------------------- tool handlers

M(k, v) == [k |-> <<k>>, v |-> v]

\* the request ue() hands to fetch: the body is JSON.stringify(body)
Request(method, path, body) ==
  [method |-> method, path |-> path, hasBody |-> body # Undef,
   body |-> IF body # Undef THEN Stringify(body) ELSE <<>>]

\* s.replace(/from/g, to) for a one-token pattern
RECURSIVE ReplaceAll(_, _, _)
ReplaceAll(s, from, to) ==
  IF s = <<>> THEN <<>>
  ELSE <<IF Head(s) = from THEN to ELSE Head(s)>> \o ReplaceAll(Tail(s), from, to)

\* s.split(","): the segments between the "," tokens
RECURSIVE Split(_, _)
Split(s, cur) ==
  IF s = <<>> THEN <<cur>>
  ELSE IF Head(s) = "," THEN <<cur>> \o Split(Tail(s), <<>>)
  ELSE Split(Tail(s), Append(cur, Head(s)))

\* s.trim(): " " tokens dropped at both ends
RECURSIVE Trim(_)
Trim(s) ==
  IF s = <<>> THEN s
  ELSE IF Head(s) = " " THEN Trim(Tail(s))
  ELSE IF s[Len(s)] = " " THEN Trim(SubSeq(s, 1, Len(s) - 1))
  ELSE s

\* v ?? []
OrEmptyArray(v) == IF v.t \in {"null", "undefined"} THEN Arr(<<>>) ELSE v

\* v.length
LengthOf(v) ==
  CASE v.t = "arr" -> Num(Len(v.a))
    [] v.t = "str" -> Num(Len(v.s))
    [] OTHER -> Undef

\* { Name: p.Name, Type: p.Type, ...(p.Description ? {Description} : {}) }
PropertyEntry(p) ==
  IF ~Get(p, <<"Name">>).ok THEN Get(p, <<"Name">>)
  ELSE Return(Obj(<<M("Name", Get(p, <<"Name">>).v), M("Type", Get(p, <<"Type">>).v)>>
         \o (IF Truthy(Get(p, <<"Description">>).v)
               THEN <<M("Description", Get(p, <<"Description">>).v)>> ELSE <<>>)))

\* { Name: f.Name, ...(f.Description ? {Description} : {}) }
FunctionEntry(f) ==
  IF ~Get(f, <<"Name">>).ok THEN Get(f, <<"Name">>)
  ELSE Return(Obj(<<M("Name", Get(f, <<"Name">>).v)>>
         \o (IF Truthy(Get(f, <<"Description">>).v)
               THEN <<M("Description", Get(f, <<"Description">>).v)>> ELSE <<>>)))

\* { Name: a.Name, Class: a.Class, Path: a.Path }
AssetEntry(a) ==
  IF ~Get(a, <<"Name">>).ok THEN Get(a, <<"Name">>)
  ELSE Return(Obj(<<M("Name", Get(a, <<"Name">>).v), M("Class", Get(a, <<"Class">>).v),
                    M("Path", Get(a, <<"Path">>).v)>>))

\* the elements of a from index i on, mapped by the entry kind; the first throw wins
RECURSIVE MapEntries(_, _, _, _)
MapEntries(kind, a, i, acc) ==
  IF i > Len(a) THEN Return(Arr(acc))
  ELSE
    LET e == CASE kind = "property" -> PropertyEntry(a[i])
               [] kind = "function" -> FunctionEntry(a[i])
               [] kind = "asset" -> AssetEntry(a[i])
    IN IF e.ok THEN MapEntries(kind, a, i + 1, Append(acc, e.v)) ELSE e

\* v.map(entry): only an array has map
MapOf(kind, name, v) ==
  IF v.t # "arr" THEN Throw(<<name, ".map is not a function">>)
  ELSE MapEntries(kind, v.a, 1, <<>>)

\* ue_describe_object after the await: the compact summary
DescribeSummary(raw) ==
  IF ~Get(raw, <<"Properties">>).ok THEN Get(raw, <<"Properties">>)
  ELSE
    LET props == OrEmptyArray(Get(raw, <<"Properties">>).v)
        funcs == OrEmptyArray(Get(raw, <<"Functions">>).v)
        pm == MapOf("property", "props", props)
        fm == MapOf("function", "funcs", funcs)
    IN IF ~pm.ok THEN pm
       ELSE IF ~fm.ok THEN fm
       ELSE Return(Obj(<<M("Class", Get(raw, <<"Class">>).v),
                         M("Name", Get(raw, <<"Name">>).v),
                         M("PropertyCount", LengthOf(props)),
                         M("Properties", pm.v),
                         M("FunctionCount", LengthOf(funcs)),
                         M("Functions", fm.v)>>))

\* ue_search_assets after the await: the compact result
SearchCompact(raw) ==
  IF ~Get(raw, <<"Assets">>).ok THEN Get(raw, <<"Assets">>)
  ELSE
    LET assets == OrEmptyArray(Get(raw, <<"Assets">>).v)
        compact == MapOf("asset", "assets", assets)
    IN IF ~compact.ok THEN compact
       ELSE Return(Obj(<<M("Count", LengthOf(compact.v)), M("Assets", compact.v)>>))

\* class_names.split(",").map((s) => s.trim())
RECURSIVE TrimAll(_)
TrimAll(segs) ==
  IF segs = <<>> THEN <<>> ELSE <<Str(Trim(Head(segs)))>> \o TrimAll(Tail(segs))

SearchFilter(class_names, path_filter) ==
  Obj((IF Truthy(class_names)
         THEN <<M("classNames", Arr(TrimAll(Split(class_names.s, <<>>))))>> ELSE <<>>)
      \o (IF Truthy(path_filter) THEN <<M("paths", Arr(<<path_filter>>))>> ELSE <<>>))

\* ------------------------------------------------ output capture (SSH)

RESULT_FILE == <<"C:", "/", "tmp", "/", "nora_mcp_result.json">>

ListActorsCode == <<"import unreal ... for a in actors: print(...)">>

\* the harness around the user's code; RESULT_FILE.replace(/\\/g, "/")
Wrapper(code) ==
  <<"import sys, io, json, traceback ... try: exec(">> \o Stringify(Str(code))
    \o <<") except Exception as e: _nora_err = traceback.format_exc() finally: ... open(">>
    \o Stringify(Str(ReplaceAll(RESULT_FILE, "\\", "/")))
    \o <<", 'w', encoding='utf-8') as f: json.dump({output, error}, f)">>

\* the command line sshRead runs; remotePath.replace(/\//g, "\\")
SshCommand(remotePath) ==
  <<"ssh -o ConnectTimeout=3 -o StrictHostKeyChecking=no user@host ", Q, "type ">>
    \o ReplaceAll(remotePath, "/", "\\") \o <<Q>>

\* the file at RESULT_FILE on the remote host; `by` (the invocation 1, 2, ...
\* whose harness wrote it last, 0 for none of them) and `complete` (the write
\* has finished) are history, not content
NoFile == [exists |-> FALSE, text |-> <<>>, by |-> 0, complete |-> FALSE]

\* sshRead(remotePath) with the channel in state `chan` and the remote file `f`:
\* execSync returns the command's stdout, or throws when it fails or times out
sshRead(remotePath, chan, f) ==
  CASE chan = "unreachable" ->
         Throw(<<"Command failed: ">> \o SshCommand(remotePath)
                 \o <<"\n", "ssh: connect to host: Connection timed out">>)
    [] chan = "auth" ->
         Throw(<<"Command failed: ">> \o SshCommand(remotePath)
                 \o <<"\n", "Permission denied (publickey,password).">>)
    [] chan = "timeout" -> Throw(<<"spawnSync /bin/sh ETIMEDOUT">>)
    [] chan = "up" ->
         IF f.exists THEN Return(Str(f.text))
         ELSE Throw(<<"Command failed: ">> \o SshCommand(remotePath)
                      \o <<"\n", "The system cannot find the file specified.">>)

NoOutput == <<"(no output)">>

\* as CaptureResult, with result.output ?? "(no output)"
CaptureResultNullishSentinel(read) ==
  IF ~read.ok THEN Throw(read.msg) @@ [at |-> "sshRead"]
  ELSE
    LET p == JSONParse(read.v.s)
    IN IF ~p.ok THEN Throw(p.msg) @@ [at |-> "JSON.parse"]
       ELSE IF ~Get(p.v, <<"error">>).ok
         THEN Throw(Get(p.v, <<"error">>).msg) @@ [at |-> "result.error"]
       ELSE IF Truthy(Get(p.v, <<"error">>).v)
         THEN Throw(ToStr(Get(p.v, <<"error">>).v)) @@ [at |-> "throw"]
       ELSE IF Get(p.v, <<"output">>).v.t \notin {"null", "undefined"}
         THEN Return(Get(p.v, <<"output">>).v) @@ [at |-> "return"]
       ELSE Return(Str(NoOutput)) @@ [at |-> "return"]

\* execPythonWithOutput from the sshRead on, `read` being what sshRead gave;
\* `at` names the statement that threw or returned
CaptureResult(read) ==
  IF ~read.ok THEN Throw(read.msg) @@ [at |-> "sshRead"]
  ELSE
    LET p == JSONParse(read.v.s)
    IN IF ~p.ok THEN Throw(p.msg) @@ [at |-> "JSON.parse"]
       ELSE IF ~Get(p.v, <<"error">>).ok
         THEN Throw(Get(p.v, <<"error">>).msg) @@ [at |-> "result.error"]
       ELSE IF Truthy(Get(p.v, <<"error">>).v)
         THEN Throw(ToStr(Get(p.v, <<"error">>).v)) @@ [at |-> "throw"]
       ELSE IF Truthy(Get(p.v, <<"output">>).v)
         THEN Return(Get(p.v, <<"output">>).v) @@ [at |-> "return"]
       ELSE Return(Str(NoOutput)) @@ [at |-> "return"]

\* what the harness dumps: json.dump({"output": _nora_out, "error": _nora_err}, f)
HarnessRecord(run) == Stringify(Obj(<<M("output", Str(run.out)), M("error", run.err)>>))

Traceback(what) == <<"Traceback (most recent call last):\n", what>>

\* The Python the model's callers send, and what running it inside the harness
\* leaves in _nora_out and _nora_err.  exec(code) runs in the harness's own
\* namespace, so the code may assign _nora_err itself.
Codes ==
  { <<"print('hi')">>, <<"pass">>, <<"print('a'); raise Boom">>,
    <<"_nora_err = ''">>, <<"_nora_err = 'fetch failed'">> }

PyRun(code) ==
  CASE code = <<"print('hi')">> -> {[out |-> <<"hi", "\n">>, err |-> Null]}
    [] code = <<"pass">> -> {[out |-> <<>>, err |-> Null]}
    [] code = <<"print('a'); raise Boom">> ->
         {[out |-> <<"a", "\n">>, err |-> Str(Traceback("Boom"))]}
    [] code = <<"_nora_err = ''">> -> {[out |-> <<>>, err |-> Str(<<>>)]}
    [] code = <<"_nora_err = 'fetch failed'">> ->
         {[out |-> <<>>, err |-> Str(<<"fetch failed">>)]}
    [] code = ListActorsCode ->
         { [out |-> <<"Cube | StaticMeshActor | (0, 0, 0)", "\n">>, err |-> Null],
           [out |-> <<>>, err |-> Null],
           [out |-> <<>>, err |-> Str(Traceback("AttributeError"))] }

\* ---------------------------------------------------- the tool handlers

CaptureTools == {"ue_list_actors", "ue_exec_python"}

CaptureCode(c) == IF c.tool = "ue_list_actors" THEN ListActorsCode ELSE c.code

Early(result) == [early |-> TRUE, result |-> result]
Send(req) == [early |-> FALSE, req |-> req]

BatchSnippet == 200

\* a property read that names the property where the object belongs
GetPropertyBodySwapped(c) ==
  Obj(<<M("objectPath", Str(c.property_name)),
        M("access", Str(<<"READ_ACCESS">>)),
        M("propertyName", Str(c.object_path))>>)

\* the body ue_get_property hands to ue
GetPropertyBody(c) ==
  Obj(<<M("objectPath", Str(c.object_path)),
        M("access", Str(<<"READ_ACCESS">>)),
        M("propertyName", Str(c.property_name))>>)

\* a handler from its start to its first await: the request it issues, or the
\* response it returns without issuing one
PreAwait(c) ==
  CASE c.tool = "ue_get_property" ->
         Send(Request("PUT", "/remote/object/property", GetPropertyBody(c)))
    [] c.tool = "ue_set_property" ->
         Send(Request("PUT", "/remote/object/property",
                Obj(<<M("objectPath", Str(c.object_path)),
                      M("access", Str(<<"WRITE_TRANSACTION_ACCESS">>)),
                      M("propertyName", Str(c.property_name)),
                      M("propertyValue",
                        IF JSONParse(c.value).ok THEN JSONParse(c.value).v
                        ELSE Str(c.value))>>)))
    [] c.tool = "ue_call_function" ->
         IF Truthy(c.parameters) /\ ~JSONParse(c.parameters.s).ok
           THEN Early(err(<<"Invalid JSON in parameters: ">> \o c.parameters.s))
         ELSE Send(Request("PUT", "/remote/object/call",
                Obj(<<M("objectPath", Str(c.object_path)),
                      M("functionName", Str(c.function_name)),
                      M("parameters",
                        IF Truthy(c.parameters) THEN JSONParse(c.parameters.s).v
                        ELSE Obj(<<>>)),
                      M("generateTransaction", Bool(c.generate_transaction))>>)))
    [] c.tool = "ue_describe_object" ->
         Send(Request("PUT", "/remote/object/describe",
                Obj(<<M("objectPath", Str(c.object_path))>>)))
    [] c.tool = "ue_search_assets" ->
         Send(Request("PUT", "/remote/search/assets",
                Obj(<<M("query", Str(c.query)),
                      M("filter", SearchFilter(c.class_names, c.path_filter))>>)))
    [] c.tool \in CaptureTools ->
         Send(Request("PUT", "/remote/object/call",
                Obj(<<M("objectPath",
                        Str(<<"/Script/PythonScriptPlugin.Default__PythonScriptLibrary">>)),
                      M("functionName", Str(<<"ExecutePythonCommand">>)),
                      M("parameters",
                        Obj(<<M("PythonCommand", Str(Wrapper(CaptureCode(c))))>>))>>)))
    [] c.tool = "ue_exec_console" ->
         Send(Request("PUT", "/remote/object/call",
                Obj(<<M("objectPath",
                        Str(<<"/Script/Engine.Default__KismetSystemLibrary">>)),
                      M("functionName", Str(<<"ExecuteConsoleCommand">>)),
                      M("parameters",
                        Obj(<<M("WorldContextObject", Obj(<<M("objectPath", Str(<<>>))>>)),
                              M("Command", Str(c.command))>>))>>)))
    [] c.tool = "ue_batch" ->
         IF ~JSONParse(c.requests).ok
           THEN Early(err(<<"Invalid JSON array: ">> \o Slice(c.requests, BatchSnippet)))
         ELSE Send(Request("PUT", "/remote/batch",
                Obj(<<M("requests", JSONParse(c.requests).v)>>)))
    [] c.tool = "ue_remote_info" -> Send(Request("GET", "/remote/info", Undef))

\* the try block of a handler that calls ue() directly, from the point where
\* ue() has settled with `r`
PostAwait(c, r) ==
  IF ~r.ok THEN Throw(r.msg)
  ELSE CASE c.tool = "ue_describe_object" -> DescribeSummary(r.v)
         [] c.tool = "ue_search_assets" -> SearchCompact(r.v)
         [] c.tool = "ue_exec_console" ->
              Return(Str(<<"Console command sent: ">> \o c.command
                           \o <<"\nCheck UE Output Log for results.">>))
         [] OTHER -> Return(r.v)

\* as TryCatch, without the catch: what the block throws leaves the handler
TryNoCatch(block) ==
  IF block.ok THEN [returned |-> TRUE, result |-> ok(block.v)]
  ELSE [returned |-> FALSE, fault |-> block.msg]

\* try { return ok(<block>) } catch (e) { return err(e) }
TryCatch(block) ==
  IF block.ok THEN [returned |-> TRUE, result |-> ok(block.v)]
  ELSE [returned |-> TRUE, result |-> err(block.msg)]

\* ------------------------------------------------------------ the inputs

MaxOver == 2

\* a body that is no JSON, n tokens long
LongText(n) == [i \in 1..n |-> IF i % 2 = 1 THEN "a" ELSE "b"]

DescribeBody ==
  <<"{", Q, "Name", Q, ":", Q, "Cube", Q, ",", Q, "Class", Q, ":", Q, "Actor", Q, ",",
    Q, "Properties", Q, ":", "[", "{", Q, "Name", Q, ":", Q, "P", Q, ",",
    Q, "Description", Q, ":", Q, "d", Q, "}", "]", "}">>

AssetsBody ==
  <<"{", Q, "Assets", Q, ":", "[", "{", Q, "Name", Q, ":", Q, "A", Q, ",",
    Q, "Meta", Q, ":", "5", "}", "]", "}">>

Bodies ==
  { <<>>, <<"x", "y", "z">>, <<"null">>, <<"{", Q, "a", Q, ":", "5", ",", Q, "a", Q, ":", "0", "}">>,
    DescribeBody, AssetsBody,
    <<"{", Q, "Properties", Q, ":", "5", "}">>,
    <<"{", Q, "Functions", Q, ":", "[", "null", "]", ",", Q, "Assets", Q, ":", Q, "s", Q, "}">> }
    \cup { LongText(TruncLen + k) : k \in 0..MaxOver }

Statuses == {200, 404, 500}

Replies == {NetworkError} \cup { HttpReply(st, b) : st \in Statuses, b \in Bodies }

Channels == {"up", "unreachable", "auth", "timeout"}

Paths == {<<"/Game/A">>, <<"/Game/B">>}
Names == {<<"P">>, <<"R">>}

ParametersTexts ==
  { Undef, Str(<<>>), Str(<<"{", Q, "X", Q, ":", "5", "}">>), Str(<<"{", Q, "X">>),
    Str(<<"x">>) }

RequestsTexts ==
  { <<>>, <<"[", "{", "}", "]">>, <<"[", "{">> }
    \cup { LongText(BatchSnippet + k) : k \in {0, MaxOver} }

Calls ==
  { [tool |-> "ue_get_property", object_path |-> o, property_name |-> n] :
      o \in Paths, n \in Names }
  \cup { [tool |-> "ue_set_property", object_path |-> <<"/Game/A">>,
          property_name |-> <<"P">>, value |-> v] : v \in {<<"42">>, <<"red">>} }
  \cup { [tool |-> "ue_call_function", object_path |-> <<"/Game/A">>,
          function_name |-> <<"F">>, parameters |-> ps, generate_transaction |-> g] :
           ps \in ParametersTexts, g \in BOOLEAN }
  \cup { [tool |-> "ue_describe_object", object_path |-> <<"/Game/A">>] }
  \cup { [tool |-> "ue_search_assets", query |-> <<"Cube">>, class_names |-> cn,
          path_filter |-> pf] :
           cn \in {Undef, Str(<<"Blueprint", ",", " ", "StaticMesh">>)},
           pf \in {Undef, Str(<<"/Game">>)} }
  \cup { [tool |-> "ue_list_actors"] }
  \cup { [tool |-> "ue_exec_console", command |-> <<"stat fps">>] }
  \cup { [tool |-> "ue_exec_python", code |-> code] : code \in Codes }
  \cup { [tool |-> "ue_batch", requests |-> r] : r \in RequestsTexts }
  \cup { [tool |-> "ue_remote_info"] }

\* what may lie at RESULT_FILE before the server's first dispatch
FoundFile(text) == [exists |-> TRUE, text |-> text, by |-> 0, complete |-> TRUE]

PreExistingFiles ==
  { NoFile, FoundFile(<<"{", "}">>), FoundFile(<<"x">>), FoundFile(<<"null">>),
    FoundFile(<<"{", Q, "output", Q, ":", "5", ",", Q, "error", Q, ":", "null", "}">>),
    FoundFile(HarnessRecord([out |-> <<"old", "\n">>, err |-> Null])) }

\* --------------------------------------------------------------- the state

VARIABLES
  \* per tool invocation i:
  pc,       \* "idle", "fetch" (awaiting fetch), "settle" (awaiting the timer), "done"
  call,     \* the tool call being handled
  sent,     \* the HTTP requests the invocation has issued
  reply,    \* how the invocation's fetch settled (history)
  ueOut,    \* what ue() then gave the handler (history)
  read,     \* the channel and file state its sshRead met (history)
  steps,    \* the steps the invocation has run (history)
  failure,  \* the step that failed, "none" when none did (history)
  done,     \* what the handler gave: a ToolResult returned, or a fault
  file,     \* the remote file at RESULT_FILE
  jobs      \* the harness runs the remote engine has accepted and not finished

vars == <<pc, call, sent, reply, ueOut, read, steps, failure, done, file, jobs>>

Invocations == DOMAIN pc

NoCall == [tool |-> "none"]
NoValue == [settled |-> FALSE]
NoRead == [chan |-> "none"]
Pending == [returned |-> FALSE, pending |-> TRUE]

InitWith(S) ==
  /\ pc = [s \in S |-> "idle"]
  /\ call = [s \in S |-> NoCall]
  /\ sent = [s \in S |-> <<>>]
  /\ reply = [s \in S |-> NoReply]
  /\ ueOut = [s \in S |-> NoValue]
  /\ read = [s \in S |-> NoRead]
  /\ steps = [s \in S |-> <<>>]
  /\ failure = [s \in S |-> "none"]
  /\ done = [s \in S |-> Pending]
  /\ file \in PreExistingFiles
  /\ jobs = {}

\* one tool invocation
Init == InitWith({1})

\* ------------------------------------------------------------- the actions

\* the server receives tool call c as invocation s and runs its handler to the
\* first await (the fetch inside ue) or to an early return
Invoke(s, c) ==
  /\ pc[s] = "idle"
  /\ call' = [call EXCEPT ![s] = c]
  /\ LET pre == PreAwait(c)
     IN IF pre.early
          THEN /\ pc' = [pc EXCEPT ![s] = "done"]
               /\ sent' = [sent EXCEPT ![s] = <<>>]
               /\ steps' = [steps EXCEPT ![s] = <<>>]
               /\ failure' = [failure EXCEPT ![s] = "input"]
               /\ done' = [done EXCEPT ![s] = [returned |-> TRUE, result |-> pre.result]]
          ELSE /\ pc' = [pc EXCEPT ![s] = "fetch"]
               /\ sent' = [sent EXCEPT ![s] = <<pre.req>>]
               /\ steps' = [steps EXCEPT ![s] = <<"request">>]
               /\ failure' = [failure EXCEPT ![s] = "none"]
               /\ done' = [done EXCEPT ![s] = Pending]
  /\ UNCHANGED <<reply, ueOut, read, file, jobs>>

\* as FetchSettles, execPythonWithOutput going on to the timer whatever ue() gave
FetchSettlesUnchecked(s, rep) ==
  /\ pc[s] = "fetch"
  /\ LET req == sent[s][Len(sent[s])]
         r == UeResult(req.method, req.path, rep)
     IN /\ steps' = [steps EXCEPT ![s] = @ \o r.did]
        /\ IF call[s].tool \in CaptureTools
             THEN /\ pc' = [pc EXCEPT ![s] = "settle"]
                  /\ jobs' = jobs
                  /\ UNCHANGED <<reply, ueOut, failure, done>>
             ELSE /\ pc' = [pc EXCEPT ![s] = "done"]
                  /\ reply' = [reply EXCEPT ![s] = rep]
                  /\ ueOut' = [ueOut EXCEPT ![s] = r]
                  /\ done' = [done EXCEPT ![s] = TryCatch(PostAwait(call[s], r))]
                  /\ failure' = [failure EXCEPT ![s] =
                       IF PostAwait(call[s], r).ok THEN "none" ELSE "status"]
                  /\ UNCHANGED jobs
  /\ UNCHANGED <<call, sent, read, file>>

\* the fetch of invocation s settles with `rep`; ue() and the handler run on to the
\* handler's return, or, in execPythonWithOutput, to the setTimeout await (the
\* value ue() gives there is dropped, and the model keeps no history of it)
FetchSettles(s, rep) ==
  /\ pc[s] = "fetch"
  /\ LET req == sent[s][Len(sent[s])]
         r == UeResult(req.method, req.path, rep)
     IN /\ steps' = [steps EXCEPT ![s] = @ \o r.did]
        /\ IF call[s].tool \in CaptureTools /\ r.ok
             THEN /\ pc' = [pc EXCEPT ![s] = "settle"]
                  /\ jobs' = jobs \cup {[id |-> s,
                                         code |-> CaptureCode(call[s]),
                                         st |-> "accepted"]}
                  /\ UNCHANGED <<reply, ueOut, failure, done>>
             ELSE /\ pc' = [pc EXCEPT ![s] = "done"]
                  /\ reply' = [reply EXCEPT ![s] = rep]
                  /\ ueOut' = [ueOut EXCEPT ![s] = r]
                  /\ LET block == IF call[s].tool \in CaptureTools THEN Throw(r.msg)
                                  ELSE PostAwait(call[s], r)
                     IN /\ done' = [done EXCEPT ![s] = TryCatch(block)]
                        /\ failure' = [failure EXCEPT ![s] =
                             IF block.ok THEN "none"
                             ELSE IF rep.kind = "neterr" THEN "transport"
                             ELSE IF ~r.ok THEN "status"
                             ELSE "shape"]
                  /\ UNCHANGED jobs
  /\ UNCHANGED <<call, sent, read, file>>

\* a retrieval that answers only from the record its own dispatch wrote
SettleElapsedOwnRecord(s, chan) ==
  /\ pc[s] = "settle"
  /\ LET rd == sshRead(RESULT_FILE, chan, file)
         cr == IF rd.ok /\ file.by # s
                 THEN Throw(<<"stale record">>) @@ [at |-> "JSON.parse"]
                 ELSE CaptureResult(rd)
     IN /\ read' = [read EXCEPT ![s] = [chan |-> chan, file |-> file]]
        /\ steps' = [steps EXCEPT ![s] =
             @ \o <<"settled", "sshRead">> \o (IF rd.ok THEN <<"JSON.parse">> ELSE <<>>)]
        /\ failure' = [failure EXCEPT ![s] = IF cr.ok THEN "none" ELSE cr.at]
        /\ done' = [done EXCEPT ![s] = TryCatch(cr)]
  /\ pc' = [pc EXCEPT ![s] = "done"]
  /\ UNCHANGED <<call, sent, reply, ueOut, file, jobs>>

\* the 200 ms timer of invocation s fires: sshRead runs synchronously over a channel
\* in state `chan`, then the parse and the handler's return
SettleElapsed(s, chan) ==
  /\ pc[s] = "settle"
  /\ LET rd == sshRead(RESULT_FILE, chan, file)
         cr == CaptureResult(rd)
     IN /\ read' = [read EXCEPT ![s] = [chan |-> chan, file |-> file]]
        /\ steps' = [steps EXCEPT ![s] =
             @ \o <<"settled", "sshRead">> \o (IF rd.ok THEN <<"JSON.parse">> ELSE <<>>)]
        /\ failure' = [failure EXCEPT ![s] = IF cr.ok THEN "none" ELSE cr.at]
        /\ done' = [done EXCEPT ![s] = TryCatch(cr)]
  /\ pc' = [pc EXCEPT ![s] = "done"]
  /\ UNCHANGED <<call, sent, reply, ueOut, file, jobs>>

\* the remote engine runs an accepted harness: the user's code has run and the
\* harness opens the result file for writing, which truncates it
HarnessOpens(j, run) ==
  /\ j \in jobs /\ j.st = "accepted"
  /\ \A k \in jobs : k.st # "writing"
  /\ run \in PyRun(j.code)
  /\ jobs' = (jobs \ {j}) \cup {[id |-> j.id, code |-> j.code, st |-> "writing", run |-> run]}
  /\ file' = [exists |-> TRUE, text |-> <<>>, by |-> j.id, complete |-> FALSE]
  /\ UNCHANGED <<pc, call, sent, reply, ueOut, read, steps, failure, done>>

\* json.dump has written the record and the file is closed
HarnessWrites(j) ==
  /\ j \in jobs /\ j.st = "writing"
  /\ jobs' = jobs \ {j}
  /\ file' = [exists |-> TRUE, text |-> HarnessRecord(j.run), by |-> j.id, complete |-> TRUE]
  /\ UNCHANGED <<pc, call, sent, reply, ueOut, read, steps, failure, done>>

Next ==
  \/ \E s \in Invocations, c \in Calls : Invoke(s, c)
  \/ \E s \in Invocations, rep \in Replies : FetchSettles(s, rep)
  \/ \E s \in Invocations, chan \in Channels : SettleElapsed(s, chan)
  \/ \E j \in jobs : \E run \in PyRun(j.code) : HarnessOpens(j, run)
  \/ \E j \in jobs : HarnessWrites(j)

Spec == Init /\ [][Next]_vars

\* ------------------------------------- two callers of the capture operation

\* the calls that go through execPythonWithOutput
CaptureCalls == {c \in Calls : c.tool \in CaptureTools}

\* how the dispatch of a harness may end: no connection, accepted, refused
DispatchReplies == {NetworkError, HttpReply(200, <<>>), HttpReply(500, <<"x", "y", "z">>)}

\* two invocations on a host where RESULT_FILE has not been written yet
InitTwo == InitWith({1, 2}) /\ file = NoFile

\* the client sends its second request without waiting for the first response:
\* the handlers interleave at their awaits
NextOverlap ==
  \/ \E s \in Invocations, c \in CaptureCalls : Invoke(s, c)
  \/ \E s \in Invocations, rep \in DispatchReplies : FetchSettles(s, rep)
  \/ \E s \in Invocations, chan \in Channels : SettleElapsed(s, chan)
  \/ \E j \in jobs : \E run \in PyRun(j.code) : HarnessOpens(j, run)
  \/ \E j \in jobs : HarnessWrites(j)

SpecOverlap == InitTwo /\ [][NextOverlap]_vars

\* no invocation is between its request and its response
Quiet == \A t \in Invocations : pc[t] \in {"idle", "done"}

\* the client sends a request only after the response to the one before; the
\* engine runs the harnesses when it gets to them
NextSequential ==
  \/ \E s \in Invocations, c \in CaptureCalls : Quiet /\ Invoke(s, c)
  \/ \E s \in Invocations, rep \in DispatchReplies : FetchSettles(s, rep)
  \/ \E s \in Invocations, chan \in Channels : SettleElapsed(s, chan)
  \/ \E j \in jobs : \E run \in PyRun(j.code) : HarnessOpens(j, run)
  \/ \E j \in jobs : HarnessWrites(j)

SpecSequential == InitTwo /\ [][NextSequential]_vars

\* --------------------- ue_exec_python of the server without output capture

\* the first attempt: PythonScriptLibrary.ExecutePythonCommand
LibraryRequest(code) ==
  Request("PUT", "/remote/object/call",
    Obj(<<M("objectPath", Str(<<"/Script/PythonScriptPlugin.Default__PythonScriptLibrary">>)),
          M("functionName", Str(<<"ExecutePythonCommand">>)),
          M("parameters", Obj(<<M("PythonCommand", Str(code))>>))>>))

\* the fallback: KismetSystemLibrary.ExecuteConsoleCommand with `py ${code}`
ConsoleRequest(code) ==
  Request("PUT", "/remote/object/call",
    Obj(<<M("objectPath", Str(<<"/Script/Engine.Default__KismetSystemLibrary">>)),
          M("functionName", Str(<<"ExecuteConsoleCommand">>)),
          M("parameters",
            Obj(<<M("WorldContextObject", Obj(<<M("objectPath", Str(<<>>))>>)),
                  M("Command", Str(<<"py ">> \o code))>>))>>))

ViaLibrary == <<"Python executed via PythonScriptLibrary.", "\n", "Check UE Output Log for output.">>
ViaConsole == <<"Python executed via console command.", "\n", "Check UE Output Log for output.">>

GoOn(req) == [returns |-> FALSE, req |-> req]
Answer(result) == [returns |-> TRUE, result |-> result]

\* a handler that gives up when the first attempt fails
AfterAttemptNoFallback(n, r, code) ==
  IF r.ok THEN Answer(ok(Str(IF n = 1 THEN ViaLibrary ELSE ViaConsole)))
  ELSE Answer(err(r.msg))

\* the handler from the point where its n-th await of ue settled with r: the
\* inner try returns, the inner catch issues the fallback, the outer catch
\* answers err(e)
AfterAttempt(n, r, code) ==
  IF r.ok THEN Answer(ok(Str(IF n = 1 THEN ViaLibrary ELSE ViaConsole)))
  ELSE IF n = 1 THEN GoOn(ConsoleRequest(code))
  ELSE Answer(err(r.msg))

ExecPythonCalls == {[tool |-> "ue_exec_python", code |-> code] : code \in Codes}

\* the handler up to its first await
InvokeExecPython(s, c) ==
  /\ pc[s] = "idle"
  /\ call' = [call EXCEPT ![s] = c]
  /\ sent' = [sent EXCEPT ![s] = <<LibraryRequest(c.code)>>]
  /\ steps' = [steps EXCEPT ![s] = <<"request">>]
  /\ pc' = [pc EXCEPT ![s] = "fetch"]
  /\ UNCHANGED <<reply, ueOut, read, failure, done, file, jobs>>

\* the fetch of the latest request settles with `rep`; ue and then the
\* handler run to the next await or to the handler's return
AttemptSettles(s, rep) ==
  /\ pc[s] = "fetch"
  /\ LET n == Len(sent[s])
         req == sent[s][n]
         r == UeResult(req.method, req.path, rep)
         a == AfterAttempt(n, r, call[s].code)
     IN /\ reply' = [reply EXCEPT ![s] = rep]
        /\ ueOut' = [ueOut EXCEPT ![s] = r]
        /\ IF a.returns
             THEN /\ pc' = [pc EXCEPT ![s] = "done"]
                  /\ done' = [done EXCEPT ![s] = [returned |-> TRUE, result |-> a.result]]
                  /\ steps' = [steps EXCEPT ![s] = @ \o r.did]
                  /\ failure' = [failure EXCEPT ![s] =
                       IF r.ok THEN "none"
                       ELSE IF rep.kind = "neterr" THEN "transport" ELSE "status"]
                  /\ UNCHANGED sent
             ELSE /\ sent' = [sent EXCEPT ![s] = @ \o <<a.req>>]
                  /\ steps' = [steps EXCEPT ![s] = @ \o r.did \o <<"request">>]
                  /\ UNCHANGED <<pc, done, failure>>
  /\ UNCHANGED <<call, read, file, jobs>>

InitExecPython == InitWith({1}) /\ file = NoFile

NextExecPython ==
  \/ \E s \in Invocations, c \in ExecPythonCalls : InvokeExecPython(s, c)
  \/ \E s \in Invocations, rep \in Replies : AttemptSettles(s, rep)

SpecExecPython == InitExecPython /\ [][NextExecPython]_vars

\* ------------------------------------------------------------ the claims

\* invocation i has finished
Finished(i) == pc[i] = "done"

\* invocation i ran the capture operation and its sshRead retrieved the file's text
Retrieved(i) ==
  /\ Finished(i) /\ call[i].tool \in CaptureTools
  /\ read[i].chan = "up" /\ read[i].file.exists

\* the record in the text invocation i retrieved, when the text is a JSON object
RetrievedRecord(i) == JSONParse(read[i].file.text)
RetrievedObject(i) == RetrievedRecord(i).ok /\ RetrievedRecord(i).v.t = "obj"
ErrorField(i) == Get(RetrievedRecord(i).v, <<"error">>).v
OutputField(i) == Get(RetrievedRecord(i).v, <<"output">>).v

\* the handler of invocation i returned an error response with message msg
FailedWith(i, msg) ==
  /\ done[i].returned
  /\ done[i].result.isError
  /\ done[i].result.text = <<"Error: ">> \o msg

\* the handler of invocation i returned a success response with text `text`
SucceededWith(i, text) ==
  /\ done[i].returned
  /\ ~done[i].result.isError
  /\ done[i].result.text = text

\* C1: whenever the retrieved record's `error` field is a string (the empty
\* string included), the capture operation fails with that string as its
\* message and returns no output.
C1_StringErrorFails ==
  \A i \in Invocations :
    (Retrieved(i) /\ RetrievedObject(i) /\ ErrorField(i).t = "str")
      => FailedWith(i, ErrorField(i).s)

\* C2: whenever the retrieved record has `error` null and `output` a string,
\* the capture operation succeeds; it returns "(no output)" for the empty
\* output, never the empty string, and otherwise exactly the output.
C2_NullErrorReturnsOutput ==
  \A i \in Invocations :
    (Retrieved(i) /\ RetrievedObject(i) /\ ErrorField(i) = Null /\ OutputField(i).t = "str")
      => /\ OutputField(i).s = <<>> => SucceededWith(i, <<"(no output)">>)
         /\ OutputField(i).s # <<>> => SucceededWith(i, OutputField(i).s)

C2_EmptyOutputRetrieved ==
  \E i \in Invocations :
    /\ Retrieved(i) /\ RetrievedObject(i)
    /\ ErrorField(i) = Null /\ OutputField(i) = Str(<<>>)
    /\ read[i].file.by = i

\* the reply to invocation i was an HTTP response with a non-success status
Refused(i) ==
  Finished(i) /\ reply[i].kind = "http"
    /\ (reply[i].status < 200 \/ reply[i].status > 299)

\* C3: on a non-success status ue fails; the message holds the method, the
\* path, the status and exactly the first min(500, length) characters of the
\* body; the body is not parsed and nothing is returned.
C3_RefusalCarriesCutBody ==
  \A i \in Invocations :
    Refused(i) =>
      LET body == reply[i].body
          kept == IF Len(body) < 500 THEN Len(body) ELSE 500
          head == <<"UE ", sent[i][1].method, " ", sent[i][1].path, " → ",
                    ToString(reply[i].status), ": ">>
      IN /\ ~ueOut[i].ok
         /\ Len(ueOut[i].msg) = Len(head) + kept
         /\ SubSeq(ueOut[i].msg, 1, Len(head)) = head
         /\ \A k \in 1..kept : ueOut[i].msg[Len(head) + k] = body[k]
         /\ \A k \in 1..Len(steps[i]) : steps[i][k] \notin {"parse", "return"}
         /\ FailedWith(i, ueOut[i].msg)

C3_LongBodyRefused ==
  \E i \in Invocations : Refused(i) /\ Len(reply[i].body) > 500

\* the reply to invocation i was an HTTP response with a success status
Accepted(i) ==
  Finished(i) /\ reply[i].kind = "http"
    /\ reply[i].status >= 200 /\ reply[i].status <= 299

\* C4: on a success status ue never fails: it returns the parsed value of a
\* JSON body, the text itself of a non-empty body that is no JSON, and null
\* for the empty body.
C4_SuccessNeverFails ==
  \A i \in Invocations :
    Accepted(i) =>
      LET body == reply[i].body
      IN /\ ueOut[i].ok
         /\ JSONParse(body).ok => ueOut[i].v = JSONParse(body).v
         /\ (~JSONParse(body).ok /\ body # <<>>) => ueOut[i].v = Str(body)
         /\ body = <<>> => ueOut[i].v = Null
         /\ body = <<"null">> => ueOut[i].v = Null
         /\ body = <<"x", "y", "z">> => ueOut[i].v = Str(<<"x", "y", "z">>)
         /\ body = <<"{", Q, "Properties", Q, ":", "5", "}">>
              => ueOut[i].v = Obj(<<[k |-> <<"Properties">>, v |-> Num(5)]>>)

C4_RawTextReturned ==
  \E i \in Invocations :
    /\ Accepted(i) /\ call[i].tool = "ue_remote_info"
    /\ reply[i].body = <<"x", "y", "z">>
    /\ SucceededWith(i, <<"x", "y", "z">>)

\* the caller's JSON argument of invocation i, when its tool takes one that
\* must parse: `parameters` of ue_call_function (when supplied), `requests`
\* of ue_batch
TakesJson(i) ==
  \/ call[i].tool = "ue_call_function" /\ call[i].parameters.t = "str"
  \/ call[i].tool = "ue_batch"
JsonArgument(i) ==
  IF call[i].tool = "ue_batch" THEN call[i].requests ELSE call[i].parameters.s

\* text `part` occurs in text `whole`
Occurs(part, whole) ==
  \E k \in 0..(Len(whole) - Len(part)) : SubSeq(whole, k + 1, k + Len(part)) = part

\* C5: whenever the string supplied as ue_call_function's `parameters` or
\* ue_batch's `requests` is no valid JSON, the tool returns an error response
\* that identifies the payload, and the invocation issues no HTTP request.
C5_BadJsonNeverSent ==
  \A i \in Invocations :
    (pc[i] # "idle" /\ TakesJson(i) /\ ~JSONParse(JsonArgument(i)).ok)
      => /\ sent[i] = <<>>
         /\ Finished(i)
         /\ done[i].returned
         /\ done[i].result.isError
         /\ Occurs(SubSeq(JsonArgument(i), 1,
                          IF Len(JsonArgument(i)) < 200 THEN Len(JsonArgument(i)) ELSE 200),
                   done[i].result.text)

\* the steps of a capture invocation, in the order of execPythonWithOutput
Dispatched == <<"request", "fetch", "text", "parse", "return">>

\* C6: a capture invocation runs dispatch, settle delay, retrieval and parse
\* in that order and once each: at most one request (the PUT of the harness)
\* and one sshRead; the sshRead only after the dispatch returned and the delay
\* elapsed; none after a failed dispatch; and a failed sshRead ends the
\* invocation in failure.
C6_CaptureOrder ==
  \A i \in Invocations :
    call[i].tool \in CaptureTools =>
      /\ Len(sent[i]) <= 1
      /\ \A k \in 1..Len(sent[i]) :
           sent[i][k].method = "PUT" /\ sent[i][k].path = "/remote/object/call"
      /\ Cardinality({k \in 1..Len(steps[i]) : steps[i][k] = "sshRead"}) <= 1
      /\ \/ pc[i] = "fetch" /\ steps[i] = <<"request">>
         \/ pc[i] = "settle" /\ steps[i] = Dispatched
         \/ /\ Finished(i) /\ failure[i] \in {"transport", "status"}
            /\ steps[i] \in {<<"request", "fetch", "throw">>,
                             <<"request", "fetch", "text", "throw">>}
            /\ read[i] = NoRead
         \/ /\ Finished(i) /\ failure[i] = "sshRead"
            /\ steps[i] = Dispatched \o <<"settled", "sshRead">>
            /\ done[i].returned /\ done[i].result.isError
         \/ /\ Finished(i) /\ failure[i] \notin {"transport", "status", "sshRead"}
            /\ steps[i] = Dispatched \o <<"settled", "sshRead", "JSON.parse">>

C6_RetrievalFailed ==
  \E i \in Invocations :
    /\ Finished(i) /\ call[i].tool = "ue_exec_python"
    /\ failure[i] = "sshRead" /\ read[i].chan = "unreachable"

\* C7: every tool invocation ends with a response returned by the handler;
\* the error flag is set exactly when a step of the operation failed, and the
\* text of an error response starts with "Error: ".
C7_FailureIsAResponse ==
  \A i \in Invocations :
    Finished(i) =>
      /\ done[i].returned
      /\ done[i].result.isError <=> failure[i] # "none"
      /\ done[i].result.isError =>
           /\ Len(done[i].result.text) >= 1
           /\ done[i].result.text[1] = "Error: "

C7_ShapeFaultCaught ==
  \E i \in Invocations :
    /\ Finished(i) /\ call[i].tool = "ue_describe_object"
    /\ failure[i] = "shape"
    /\ done[i].returned /\ done[i].result.isError

\* the responses a failed dispatch of the harness can give the caller
DispatchFailureResponses ==
  { err(UeResult("PUT", "/remote/object/call", rep).msg) :
      rep \in {r \in Replies : r.kind = "neterr" \/ ~RespOk(r.status)} }

\* C8: a capture failure of one class never gives the caller the response a
\* failure of another class gives: here, an error trace reported by the
\* executed code against a failed dispatch.
C8_ClassesDistinguishable ==
  \A i \in Invocations :
    (Finished(i) /\ call[i].tool \in CaptureTools /\ failure[i] = "throw")
      => done[i].result \notin DispatchFailureResponses

\* C9: the sshRead of a capture invocation reads the result file only after
\* the harness that invocation dispatched has finished writing it.
C9_ReadAfterOwnWrite ==
  \A i \in Invocations :
    Retrieved(i) => read[i].file.by = i /\ read[i].file.complete

\* the text is a JSON object whose `output` is a string and whose `error` is
\* a string or null
WellFormedRecord(text) ==
  /\ JSONParse(text).ok
  /\ JSONParse(text).v.t = "obj"
  /\ Get(JSONParse(text).v, <<"output">>).v.t = "str"
  /\ Get(JSONParse(text).v, <<"error">>).v.t \in {"str", "null"}

\* C10: when the retrieved text is no JSON, or is JSON without the expected
\* fields, the capture operation fails in the parse step and returns no
\* successful result.
C10_MalformedRecordFails ==
  \A i \in Invocations :
    (Retrieved(i) /\ ~WellFormedRecord(read[i].file.text))
      => /\ done[i].returned
         /\ done[i].result.isError
         /\ failure[i] \in {"JSON.parse", "result.error"}

ReadBodyText(c) ==
  <<"{", Q, "objectPath", Q, ":", Q>> \o c.object_path \o
  <<Q, ",", Q, "access", Q, ":", Q, "READ_ACCESS", Q, ",",
    Q, "propertyName", Q, ":", Q>> \o c.property_name \o <<Q, "}">>

TimesIn(step, trail) == Cardinality({k \in 1..Len(trail) : trail[k] = step})

PropertyRead(i) == call[i].tool = "ue_get_property" /\ pc[i] # "idle"

\* C11: every ue_get_property invocation issues exactly one HTTP request, a PUT
\* to /remote/object/property whose body carries access READ_ACCESS and exactly
\* the given object path and property name; when the endpoint answers with a
\* success status and a JSON body the response is a success whose text parses
\* to the same JSON value, no field added, removed or changed; a failure is
\* answered after that one request, with no second request.
C11_PropertyReadOneRequest ==
  \A i \in Invocations :
    PropertyRead(i) =>
      /\ Len(sent[i]) = 1
      /\ sent[i][1].method = "PUT"
      /\ sent[i][1].path = "/remote/object/property"
      /\ sent[i][1].hasBody
      /\ sent[i][1].body = ReadBodyText(call[i])
      /\ Finished(i) => TimesIn("fetch", steps[i]) = 1
      /\ (Accepted(i) /\ JSONParse(reply[i].body).ok) =>
           LET v == JSONParse(reply[i].body).v
           IN /\ done[i].returned
              /\ ~done[i].result.isError
              /\ IF v.t = "str"
                   THEN done[i].result.text = v.s
                   ELSE /\ JSONParse(done[i].result.text).ok
                        /\ JSONParse(done[i].result.text).v = v

C11_DescriptionReadBack ==
  \E i \in Invocations :
    /\ PropertyRead(i)
    /\ call[i].object_path = <<"/Game/B">>
    /\ call[i].property_name = <<"R">>
    /\ Accepted(i)
    /\ reply[i].body = DescribeBody
    /\ SucceededWith(i, DescribeBody)

ReadOf(i, j) ==
  /\ Retrieved(i)
  /\ read[i].file.by = j

\* C12: when two capture invocations overlap, both harnesses write the one
\* fixed path, and a retrieval answers from whatever lies there: an invocation
\* that reads the record the other invocation's harness wrote returns that
\* record's output (or fails with its non-empty trace) as its own result, and
\* one that reads while the other harness has the file open fails in the parse.
\* Nothing ties the record to the invocation that reads it.
C12_OthersRecordAnswered ==
  \A i \in Invocations : \A j \in Invocations \ {i} :
    /\ ReadOf(i, j) =>
         \A run \in PyRun(CaptureCode(call[j])) :
           read[i].file.text = HarnessRecord(run)
             => IF run.err \in {Null, Str(<<>>)}
                  THEN SucceededWith(i, IF run.out = <<>> THEN NoOutput ELSE run.out)
                  ELSE FailedWith(i, run.err.s)
    /\ (ReadOf(i, j) /\ ~read[i].file.complete)
         => /\ done[i].returned
            /\ done[i].result.isError
            /\ failure[i] = "JSON.parse"

C12_ReturnedTheOthersOutput ==
  \E i \in Invocations : \E j \in Invocations \ {i} :
    /\ call[i] = [tool |-> "ue_exec_python", code |-> <<"pass">>]
    /\ call[j] = [tool |-> "ue_exec_python", code |-> <<"print('hi')">>]
    /\ pc[j] = "settle"
    /\ ReadOf(i, j)
    /\ read[i].file.complete
    /\ SucceededWith(i, <<"hi", "\n">>)

\* C13: across strictly sequential capture invocations, every invocation that
\* returns successfully returns the output of the code it dispatched itself:
\* the record it retrieved was written, completely, by its own harness, never
\* left behind by an earlier invocation.
C13_OwnOutputReturned ==
  \A i \in Invocations :
    (Retrieved(i) /\ ~done[i].result.isError)
      => /\ read[i].file.by = i
         /\ read[i].file.complete
         /\ \E run \in PyRun(CaptureCode(call[i])) :
              done[i].result.text = IF run.out = <<>> THEN NoOutput ELSE run.out

Attempts(i) == TimesIn("fetch", steps[i])
StartsWith(trail, part) ==
  Len(trail) >= Len(part) /\ SubSeq(trail, 1, Len(part)) = part
FirstFailed(i) ==
  \/ StartsWith(steps[i], <<"request", "fetch", "throw">>)
  \/ StartsWith(steps[i], <<"request", "fetch", "text", "throw">>)
LastError(i) ==
  IF reply[i].kind = "neterr" THEN <<"fetch failed">>
  ELSE <<"UE ", "PUT", " ", "/remote/object/call", " → ", ToString(reply[i].status), ": ">>
         \o Slice(reply[i].body, TruncLen)

\* C14: in the server without output capture, ue_exec_python issues the
\* direct PythonScriptLibrary call first and the console-command fallback
\* exactly when that first call failed, whatever the reason; it issues at most
\* two requests; a success names the path that succeeded; an error response
\* is returned only when both calls failed and its message is the error of
\* the second call, the first call's error being discarded.
C14_FallbackOnlyAfterFailure ==
  \A i \in Invocations :
    pc[i] # "idle" =>
      /\ Len(sent[i]) \in {1, 2}
      /\ sent[i][1] = LibraryRequest(call[i].code)
      /\ Len(sent[i]) = 2 <=> FirstFailed(i)
      /\ Len(sent[i]) = 2 => sent[i][2] = ConsoleRequest(call[i].code)
      /\ Finished(i) =>
           /\ Attempts(i) = Len(sent[i])
           /\ done[i].returned
           /\ IF Accepted(i)
                THEN SucceededWith(i, IF Len(sent[i]) = 1 THEN ViaLibrary ELSE ViaConsole)
                ELSE /\ Len(sent[i]) = 2
                     /\ FailedWith(i, LastError(i))

C14_BothFailedSecondReported ==
  \E i \in Invocations :
    /\ Finished(i)
    /\ steps[i] = <<"request", "fetch", "throw", "request", "fetch", "text", "throw">>
    /\ reply[i] = HttpReply(500, <<"x", "y", "z">>)
    /\ FailedWith(i, <<"UE ", "PUT", " ", "/remote/object/call", " → ", "500", ": ",
                        "x", "y", "z">>)

====
